---- MODULE Spec2Model ----
(***************************************************************************)
(* The pretty-printing engine of unguentum/src/format.rs: the document     *)
(* algebra, the fits measurement and its bracket-truncated variant, the    *)
(* layout pass it_format_to_sdoc (one step per loop iteration) and the     *)
(* serialisation it_simple_doc_to_string.                                  *)
(*                                                                         *)
(* Strings are sequences of one-character strings, so that the width of a  *)
(* Text is the length of its string and the serialised output can be cut   *)
(* into lines.  All integers stay far below 2^31, so i32 arithmetic is     *)
(* plain integer arithmetic here.                                          *)
(***************************************************************************)
EXTENDS Integers, Sequences, FiniteSets, TLC

VARIABLES
    root,               \* the triple the caller queued: (indent, mode, doc)
    line_length,        \* config.line_length()
    consumed,           \* it_format_to_sdoc: mut consumed
    docs,               \* it_format_to_sdoc: the work queue
    broken_docs,        \* it_format_to_sdoc: the set of ids of broken groups
    simple_docs,        \* it_format_to_sdoc: the output vector
    pc,                 \* "run" inside the while loop, "done" after it returned
    nest_if_break_log,  \* history: the branch each popped NestIfBreak took
    hanging,            \* history: the NestHanging nodes still being processed
    decided,            \* history: each popped Group's id and the mode it was queued in
    built,              \* construction: the documents the client holds, last built last
    counter,            \* construction: the usize behind to_group's &mut doc_ref
    group_ids           \* history: the ids of the groups to_group returned, in call order

vars == <<root, line_length, consumed, docs, broken_docs, simple_docs, pc,
          nest_if_break_log, hanging, decided, built, counter, group_ids>>

construction_vars == <<built, counter, group_ids>>

(***************************************************************************)
(* Bounds of the model.                                                    *)
(***************************************************************************)
MaxNodes == 4
MaxWidth == 4
MaxBuilt == 5

(***************************************************************************)
(* Data model: Doc and its properties.                                     *)
(***************************************************************************)
ShouldBreak == {"Yes", "No", "Propagate"}

InlineCommentPosition == {"No", "Middle", "End", "InGroup"}

\* Mutant: No + Middle gives No.
AddPositionDropsMiddle(self, rhs) ==
    CASE self = "No" /\ rhs = "No" -> "No"
      [] self = "End" \/ self = "Middle" -> "Middle"
      [] self = "No" /\ rhs = "Middle" -> "No"
      [] self = "No" /\ rhs = "End" -> "End"
      [] self = "InGroup" -> rhs
      [] self = "No" /\ rhs = "InGroup" -> "No"

\* impl Add for InlineCommentPosition
AddPosition(self, rhs) ==
    CASE self = "No" /\ rhs = "No" -> "No"
      [] self = "End" \/ self = "Middle" \/ (self = "No" /\ rhs = "Middle") -> "Middle"
      [] self = "No" /\ rhs = "End" -> "End"
      [] self = "InGroup" -> rhs
      [] self = "No" /\ rhs = "InGroup" -> "No"

CommonProperties(position, id) == [pos |-> position, id |-> id]

DefaultProperties == CommonProperties("No", 0)

Nil == [t |-> "Nil"]

\* Doc::Text(text, text length, props); the width is the length of the string.
Text(s) == [t |-> "Text", s |-> s, w |-> Len(s), props |-> DefaultProperties]

\* A Text carrying an end-of-line comment: its position is End.
CommentText(s) == [t |-> "Text", s |-> s, w |-> Len(s), props |-> CommonProperties("End", 0)]

Break(s) == [t |-> "Break", s |-> s]

HardBreak == [t |-> "HardBreak"]

query_inline_position(doc) ==
    IF doc.t \in {"Nil", "Break", "HardBreak"} THEN "No" ELSE doc.props.pos

(***************************************************************************)
(* DocAlgebra for Rc<Doc>.  to_group takes the counter before the call and *)
(* the caller carries doc_ref + 1 on.                                      *)
(***************************************************************************)
cons(self, other) ==
    [t |-> "Cons", l |-> self, r |-> other,
     props |-> CommonProperties(
         AddPosition(query_inline_position(self), query_inline_position(other)), 0)]

\* Mutant: the group takes the position of its inner doc as it is.
group_position_unchanged(position) == position

group_position(position) ==
    CASE position = "Middle" -> "InGroup"
      [] position = "InGroup" -> "No"
      [] OTHER -> position

\* Mutant: the id is the counter before the increment.
to_group_stale_id(self, should_break, doc_ref) ==
    [t |-> "Group", doc |-> self, sb |-> should_break,
     props |-> CommonProperties(group_position(query_inline_position(self)), doc_ref)]

to_group(self, should_break, doc_ref) ==
    [t |-> "Group", doc |-> self, sb |-> should_break,
     props |-> CommonProperties(group_position(query_inline_position(self)), doc_ref + 1)]

nest(self, indent) ==
    [t |-> "Nest", step |-> indent, doc |-> self,
     props |-> CommonProperties(query_inline_position(self), 0)]

nest_if_break(self, indent, observed_doc) ==
    [t |-> "NestIfBreak", step |-> indent, doc |-> self,
     props |-> CommonProperties(query_inline_position(self), 0),
     observed |-> observed_doc]

nest_hanging(self) ==
    [t |-> "NestHanging", doc |-> self,
     props |-> CommonProperties(query_inline_position(self), 0)]

\* DocAlgebra::fits_until_l_bracket (the measurement of that name is below).
to_fits_until_l_bracket(self) ==
    [t |-> "FitsUntilLBracket", doc |-> self,
     props |-> CommonProperties(query_inline_position(self), 0)]

(***************************************************************************)
(* Serialisation.                                                          *)
(***************************************************************************)
SimpleText(s) == [t |-> "Text", s |-> s]

SimpleLine(indent) == [t |-> "Line", indent |-> indent]

Spaces(n) == [k \in 1..n |-> " "]

RECURSIVE it_simple_doc_to_string(_)
it_simple_doc_to_string(sdocs) ==
    IF sdocs = <<>> THEN <<>>
    ELSE LET d == sdocs[Len(sdocs)]
             before == it_simple_doc_to_string(SubSeq(sdocs, 1, Len(sdocs) - 1))
         IN IF d.t = "Text" THEN before \o d.s
            ELSE before \o <<"\n">> \o Spaces(d.indent)

(***************************************************************************)
(* The fits measurement and its bracket-truncated variant.  A queue is a   *)
(* sequence of triples, its front first.                                   *)
(***************************************************************************)
Triple(indent, mode, doc) == [indent |-> indent, mode |-> mode, doc |-> doc]

push_front(queue, triple) == <<triple>> \o queue

\* &**text == "{"
is_l_bracket(doc) == doc.t = "Text" /\ doc.s = <<"{">>

\* The embracing operator: the very next queued item is a Text "{".
embracing(rest) == rest # <<>> /\ is_l_bracket(Head(rest).doc)

\* Mutant: the brace fits in no column at all.
l_bracket_fits_nonnegative(remaining_width) == remaining_width >= 0

\* "Normal case": return remaining_width > 0
l_bracket_fits(remaining_width) == remaining_width > 0

\* Mutant: a HardBreak that fits.
hard_break_fits_true == TRUE

\* (_, _, Doc::HardBreak) => return false
hard_break_fits == FALSE

\* Mutant: fits without the Propagate test.
group_never_fits_middle_only(group) == group.props.pos = "Middle"

\* Mutant: a should-break Yes group does not fit either.
group_never_fits_yes(group) ==
    group.props.pos = "Middle" \/ group.sb \in {"Propagate", "Yes"}

\* fits: a Group with position Middle or should-break Propagate does not fit.
group_never_fits(group) == group.props.pos = "Middle" \/ group.sb = "Propagate"

\* fits_until_l_bracket: only a Group with position Middle does not fit.
group_never_fits_until_l_bracket(group) == group.props.pos = "Middle"

RECURSIVE fits(_, _), fits_until_l_bracket(_, _)

\* A Break queued in Break mode is unreachable!() in both measurements: the
\* CASEs below have no arm for it, so meeting one is an evaluation error.
fits(remaining_width, queue) ==
    IF remaining_width < 0 THEN FALSE
    ELSE IF queue = <<>> THEN TRUE
    ELSE LET i == Head(queue).indent
             m == Head(queue).mode
             doc == Head(queue).doc
             rest == Tail(queue)
         IN CASE doc.t = "Nil" -> fits(remaining_width, rest)
              [] doc.t = "FitsUntilLBracket" ->
                    fits_until_l_bracket(remaining_width,
                                         push_front(rest, Triple(i, m, doc.doc)))
              [] doc.t = "Cons" ->
                    fits(remaining_width,
                         push_front(push_front(rest, Triple(i, m, doc.r)),
                                    Triple(i, m, doc.l)))
              [] doc.t = "Nest" ->
                    fits(remaining_width, push_front(rest, Triple(i + doc.step, m, doc.doc)))
              [] doc.t = "NestIfBreak" ->
                    fits(remaining_width, push_front(rest, Triple(i + doc.step, m, doc.doc)))
              [] doc.t = "NestHanging" ->
                    fits(remaining_width, push_front(rest, Triple(i, m, doc.doc)))
              [] doc.t = "Text" -> fits(remaining_width - doc.w, rest)
              [] doc.t = "Break" /\ m = "Flat" -> fits(remaining_width - Len(doc.s), rest)
              [] doc.t = "Group" ->
                    IF group_never_fits(doc) THEN FALSE
                    ELSE fits(remaining_width, push_front(rest, Triple(i, "Flat", doc.doc)))
              [] doc.t = "HardBreak" -> hard_break_fits

fits_until_l_bracket(remaining_width, queue) ==
    IF remaining_width < 0 THEN FALSE
    ELSE IF queue = <<>> THEN TRUE
    ELSE LET i == Head(queue).indent
             m == Head(queue).mode
             doc == Head(queue).doc
             rest == Tail(queue)
         IN CASE doc.t = "Nil" -> fits_until_l_bracket(remaining_width, rest)
              [] doc.t = "FitsUntilLBracket" ->
                    fits_until_l_bracket(remaining_width,
                                         push_front(rest, Triple(i, m, doc.doc)))
              [] doc.t = "Cons" ->
                    fits_until_l_bracket(remaining_width,
                         push_front(push_front(rest, Triple(i, m, doc.r)),
                                    Triple(i, m, doc.l)))
              [] doc.t = "Nest" ->
                    fits_until_l_bracket(remaining_width,
                                         push_front(rest, Triple(i + doc.step, m, doc.doc)))
              [] doc.t = "NestIfBreak" ->
                    fits_until_l_bracket(remaining_width,
                                         push_front(rest, Triple(i + doc.step, m, doc.doc)))
              [] doc.t = "NestHanging" ->
                    fits_until_l_bracket(remaining_width,
                                         push_front(rest, Triple(i, m, doc.doc)))
              [] is_l_bracket(doc) ->
                    IF embracing(rest)
                    THEN fits_until_l_bracket(remaining_width - doc.w, rest)
                    ELSE l_bracket_fits(remaining_width)
              [] doc.t = "Text" /\ ~is_l_bracket(doc) ->
                    fits_until_l_bracket(remaining_width - doc.w, rest)
              [] doc.t = "Break" /\ m = "Flat" ->
                    fits_until_l_bracket(remaining_width - Len(doc.s), rest)
              [] doc.t = "Group" ->
                    IF group_never_fits_until_l_bracket(doc) THEN FALSE
                    ELSE fits_until_l_bracket(remaining_width,
                                              push_front(rest, Triple(i, "Flat", doc.doc)))
              [] doc.t = "HardBreak" -> hard_break_fits

(***************************************************************************)
(* The documents the layout pass is run on.  Build(n, doc_ref) is every    *)
(* document of exactly n nodes the algebra builds from the leaves, left    *)
(* operand first, with the id counter at doc_ref before; each comes with   *)
(* the counter after.                                                      *)
(***************************************************************************)
Leaves == {Text(<<"a">>), Text(<<"{">>), Break(<<" ">>), HardBreak}

Wrap(doc, doc_ref) ==
    {<<to_group(doc, sb, doc_ref), doc_ref + 1>> : sb \in ShouldBreak}
    \cup {<<nest(doc, 2), doc_ref>>,
          <<nest_if_break(doc, 2, 1), doc_ref>>,
          <<nest_hanging(doc), doc_ref>>,
          <<to_fits_until_l_bracket(doc), doc_ref>>}

RECURSIVE Build(_, _)
Build(n, doc_ref) ==
    IF n = 1 THEN {<<leaf, doc_ref>> : leaf \in Leaves}
    ELSE UNION {Wrap(b[1], b[2]) : b \in Build(n - 1, doc_ref)}
         \cup UNION {UNION {{<<cons(a[1], b[1]), b[2]>> : b \in Build(n - 1 - k, a[2])}
                            : a \in Build(k, doc_ref)}
                     : k \in 1..(n - 2)}

BuiltDocs == UNION {{b[1] : b \in Build(n, 0)} : n \in 1..MaxNodes}

Widths == 0..MaxWidth

Modes == {"Flat", "Break"}

\* Scenario documents, built with the algebra from a counter at 0.
FooBarDoc ==
    to_group(cons(Text(<<"f", "o", "o">>), cons(Break(<<" ">>), Text(<<"b", "a", "r">>))),
             "No", 0)

HardBreakDoc ==
    to_group(cons(Text(<<"a">>), cons(HardBreak, Text(<<"b">>))), "No", 0)

NestIfBreakDoc ==
    to_group(cons(Text(<<"f", "(">>),
                  cons(nest_if_break(cons(Break(<<>>), Text(<<"x">>)), 2, 1),
                       Text(<<")">>))),
             "No", 0)

BlockBodyDoc ==
    to_group(cons(Text(<<"{">>),
                  cons(nest(cons(Break(<<>>), cons(HardBreak, Text(<<"x">>))), 2),
                       cons(Break(<<>>), Text(<<"}">>)))),
             "No", 0)

TestThatDoc ==
    to_group(to_fits_until_l_bracket(
                 cons(Text(<<"t", "(">>),
                      cons(Text(<<"l", "o", "n", "g">>),
                           cons(Break(<<" ">>), BlockBodyDoc)))),
             "No", 1)

EmbraceDoc ==
    to_group(to_fits_until_l_bracket(
                 cons(cons(Text(<<"{">>), Text(<<"{">>)),
                      cons(Break(<<" ">>), Text(<<"x", "x", "x">>)))),
             "No", 0)

EmbraceRightDoc ==
    to_group(to_fits_until_l_bracket(
                 cons(Text(<<"a">>),
                      cons(Text(<<"{">>), cons(Text(<<"{">>), Text(<<"x", "x", "x">>))))),
             "No", 0)

ObserverFirstDoc ==
    cons(nest_if_break(cons(Break(<<" ">>), Text(<<"x">>)), 2, 1),
         to_group(cons(Text(<<"a">>), cons(Break(<<" ">>), Text(<<"b">>))), "Yes", 0))

HangingDoc ==
    cons(Text(<<"a", "b">>),
         nest_hanging(
             to_group(cons(Text(<<"c">>),
                           cons(Break(<<" ">>),
                                cons(Text(<<"d">>),
                                     nest(cons(Break(<<" ">>), Text(<<"e">>)), 2)))),
                      "Yes", 0)))

NestedHangingDoc ==
    to_group(cons(Text(<<"a">>),
                  nest_hanging(
                      cons(Break(<<>>),
                           cons(Text(<<"b">>),
                                nest_hanging(cons(Break(<<>>), Text(<<"c">>))))))),
             "Yes", 0)

CommentDoc ==
    to_group(cons(to_group(cons(CommentText(<<"#">>), Break(<<" ">>)), "No", 0),
                  cons(Break(<<" ">>), Text(<<"a">>))),
             "No", 1)

YesInsideDoc ==
    to_group(cons(Text(<<"a">>),
                  nest(to_group(cons(Break(<<>>), Text(<<"b">>)), "Yes", 0), 2)),
             "No", 1)

TrailingTextDoc ==
    cons(to_group(cons(Text(<<"a">>), cons(Break(<<" ">>), Text(<<"b">>))), "No", 0),
         cons(Nil, Text(<<"c", "c", "c">>)))

TailCommentDoc ==
    to_group(cons(Text(<<"a">>), cons(Break(<<" ">>), CommentText(<<"#">>))), "No", 0)

CommentGroupDoc ==
    to_group(to_group(cons(CommentText(<<"#">>), Text(<<"a">>)), "No", 0), "No", 1)

FlatAroundYesDoc ==
    to_group(cons(Text(<<"a">>),
                  cons(Break(<<" ">>),
                       to_group(cons(Break(<<>>), Text(<<"b">>)), "Yes", 0))),
             "No", 1)

NestedGroupsDoc ==
    to_group(cons(Text(<<"a", "b">>),
                  to_group(cons(Break(<<" ">>), Text(<<"c">>)), "No", 0)),
             "No", 1)

ScenarioDocs ==
    {NestedGroupsDoc, FlatAroundYesDoc, CommentGroupDoc, TailCommentDoc, FooBarDoc,
     HardBreakDoc, NestIfBreakDoc, BlockBodyDoc, TestThatDoc, EmbraceDoc,
     EmbraceRightDoc, ObserverFirstDoc, HangingDoc, NestedHangingDoc, CommentDoc,
     YesInsideDoc, TrailingTextDoc}

ScenarioWidths == Widths \cup {5, 8, 10, 80}

Inputs ==
    {[doc |-> d, mode |-> m, w |-> w] : d \in BuiltDocs, m \in Modes, w \in Widths}
    \cup {[doc |-> d, mode |-> m, w |-> w] : d \in ScenarioDocs, m \in Modes,
                                             w \in ScenarioWidths}

(***************************************************************************)
(* The layout pass it_format_to_sdoc, one action per arm of its match.     *)
(***************************************************************************)
\* History only: the NestHanging nodes whose inner doc the item at the front
\* belongs to (an entry ends when the queue is back to the length it had
\* behind the NestHanging).  Indents stay >= 0 here, so "i as usize" is i.
StillHanging == SelectSeq(hanging, LAMBDA e : e.base < Len(docs))

RECURSIVE HasNesting(_)
HasNesting(doc) ==
    CASE doc.t \in {"Nest", "NestIfBreak", "NestHanging"} -> TRUE
      [] doc.t = "Cons" -> HasNesting(doc.l) \/ HasNesting(doc.r)
      [] doc.t \in {"Group", "FitsUntilLBracket"} -> HasNesting(doc.doc)
      [] OTHER -> FALSE

\* The layout pass takes no counter and builds nothing: the construction
\* variables keep their initial values throughout.
Init ==
    \E input \in Inputs :
        /\ root = Triple(0, input.mode, input.doc)
        /\ line_length = input.w
        /\ consumed = 0
        /\ docs = <<Triple(0, input.mode, input.doc)>>
        /\ broken_docs = {}
        /\ simple_docs = <<>>
        /\ pc = "run"
        /\ nest_if_break_log = {}
        /\ hanging = <<>>
        /\ decided = {}
        /\ built = <<>>
        /\ counter = 0
        /\ group_ids = <<>>

Popped(kind) == pc = "run" /\ docs # <<>> /\ Head(docs).doc.t = kind

PopNil ==
    /\ Popped("Nil")
    /\ docs' = Tail(docs)
    /\ hanging' = StillHanging
    /\ UNCHANGED construction_vars
    /\ UNCHANGED <<decided, root, line_length, consumed, broken_docs, simple_docs, pc,
                   nest_if_break_log>>

\* Mutant: first is pushed before second, so second is processed first.
PopConsSecondFirst ==
    /\ Popped("Cons")
    /\ LET i == Head(docs).indent
           m == Head(docs).mode
           doc == Head(docs).doc
       IN docs' = push_front(push_front(Tail(docs), Triple(i, m, doc.l)),
                             Triple(i, m, doc.r))
    /\ hanging' = StillHanging
    /\ UNCHANGED construction_vars
    /\ UNCHANGED <<decided, root, line_length, consumed, broken_docs,
                   simple_docs, pc, nest_if_break_log>>

PopCons ==
    /\ Popped("Cons")
    /\ LET i == Head(docs).indent
           m == Head(docs).mode
           doc == Head(docs).doc
       IN docs' = push_front(push_front(Tail(docs), Triple(i, m, doc.r)),
                             Triple(i, m, doc.l))
    /\ hanging' = StillHanging
    /\ UNCHANGED construction_vars
    /\ UNCHANGED <<decided, root, line_length, consumed, broken_docs, simple_docs, pc,
                   nest_if_break_log>>

PopNest ==
    /\ Popped("Nest")
    /\ LET i == Head(docs).indent
           m == Head(docs).mode
           doc == Head(docs).doc
       IN docs' = push_front(Tail(docs), Triple(i + doc.step, m, doc.doc))
    /\ hanging' = StillHanging
    /\ UNCHANGED construction_vars
    /\ UNCHANGED <<decided, root, line_length, consumed, broken_docs, simple_docs, pc,
                   nest_if_break_log>>

\* Mutant: the step is always added, as both measurements do.
nest_if_break_indent_always(i, step, observed_doc, broken) == i + step

\* Mutant: the step is never added.
nest_if_break_indent_never(i, step, observed_doc, broken) == i

\* if broken_docs.contains(observed_doc) { i + step } else { i }
nest_if_break_indent(i, step, observed_doc, broken) ==
    IF observed_doc \in broken THEN i + step ELSE i

PopNestIfBreak ==
    /\ Popped("NestIfBreak")
    /\ LET i == Head(docs).indent
           m == Head(docs).mode
           doc == Head(docs).doc
       IN /\ docs' = push_front(Tail(docs),
                         Triple(nest_if_break_indent(i, doc.step, doc.observed, broken_docs),
                                m, doc.doc))
          /\ nest_if_break_log' = nest_if_break_log \cup
                 {[observed |-> doc.observed, applied |-> doc.observed \in broken_docs]}
    /\ hanging' = StillHanging
    /\ UNCHANGED construction_vars
    /\ UNCHANGED <<decided, root, line_length, consumed, broken_docs, simple_docs, pc>>

\* Mutant: the rewrite nests by the column, not by its distance to the indent.
nest_hanging_rewrite_column(i, column, doc) ==
    [t |-> "Nest", step |-> column, doc |-> doc.doc, props |-> doc.props]

\* Mutant: the NestHanging is queued again as it is.
nest_hanging_rewrite_none(i, column, doc) == doc

\* Rc::new(Doc::Nest(consumed - i, Rc::clone(doc), *props))
nest_hanging_rewrite(i, column, doc) ==
    [t |-> "Nest", step |-> column - i, doc |-> doc.doc, props |-> doc.props]

PopNestHanging ==
    /\ Popped("NestHanging")
    /\ LET i == Head(docs).indent
           m == Head(docs).mode
           doc == Head(docs).doc
       IN /\ docs' = push_front(Tail(docs), Triple(i, m, nest_hanging_rewrite(i, consumed, doc)))
          /\ hanging' = Append(StillHanging,
                               [base |-> Len(Tail(docs)), col |-> consumed,
                                emitted |-> Len(simple_docs),
                                plain |-> ~HasNesting(doc.doc)])
    /\ UNCHANGED construction_vars
    /\ UNCHANGED <<decided, root, line_length, consumed, broken_docs, simple_docs, pc,
                   nest_if_break_log>>

PopText ==
    /\ Popped("Text")
    /\ simple_docs' = Append(simple_docs, SimpleText(Head(docs).doc.s))
    /\ consumed' = consumed + Head(docs).doc.w
    /\ docs' = Tail(docs)
    /\ hanging' = StillHanging
    /\ UNCHANGED construction_vars
    /\ UNCHANGED <<decided, root, line_length, broken_docs, pc, nest_if_break_log>>

\* Mutant: a Break queued in Flat mode emits a Line.
PopBreakFlatAsLine ==
    /\ Popped("Break")
    /\ Head(docs).mode = "Flat"
    /\ simple_docs' = Append(simple_docs, SimpleLine(Head(docs).indent))
    /\ consumed' = Head(docs).indent
    /\ docs' = Tail(docs)
    /\ hanging' = StillHanging
    /\ UNCHANGED construction_vars
    /\ UNCHANGED <<decided, root, line_length, broken_docs, pc, nest_if_break_log>>

PopBreakFlat ==
    /\ Popped("Break")
    /\ Head(docs).mode = "Flat"
    /\ simple_docs' = Append(simple_docs, SimpleText(Head(docs).doc.s))
    /\ consumed' = consumed + Len(Head(docs).doc.s)
    /\ docs' = Tail(docs)
    /\ hanging' = StillHanging
    /\ UNCHANGED construction_vars
    /\ UNCHANGED <<decided, root, line_length, broken_docs, pc, nest_if_break_log>>

PopFitsUntilLBracket ==
    /\ Popped("FitsUntilLBracket")
    /\ LET i == Head(docs).indent
           m == Head(docs).mode
           doc == Head(docs).doc
       IN docs' = push_front(Tail(docs), Triple(i, m, doc.doc))
    /\ hanging' = StillHanging
    /\ UNCHANGED construction_vars
    /\ UNCHANGED <<decided, root, line_length, consumed, broken_docs, simple_docs, pc,
                   nest_if_break_log>>

\* Mutant: the Line leaves the column at 0, not at the indent.
PopBreakBreakColumnZero ==
    /\ Popped("Break")
    /\ Head(docs).mode = "Break"
    /\ simple_docs' = Append(simple_docs, SimpleLine(Head(docs).indent))
    /\ consumed' = 0
    /\ docs' = Tail(docs)
    /\ hanging' = StillHanging
    /\ UNCHANGED construction_vars
    /\ UNCHANGED <<decided, root, line_length, broken_docs, pc, nest_if_break_log>>

PopBreakBreak ==
    /\ Popped("Break")
    /\ Head(docs).mode = "Break"
    /\ simple_docs' = Append(simple_docs, SimpleLine(Head(docs).indent))
    /\ consumed' = Head(docs).indent
    /\ docs' = Tail(docs)
    /\ hanging' = StillHanging
    /\ UNCHANGED construction_vars
    /\ UNCHANGED <<decided, root, line_length, broken_docs, pc, nest_if_break_log>>

\* Mutant: the probe gets one column too few.
group_breaks_narrow(i, group, column, width) ==
    \/ group.sb = "Yes"
    \/ group.sb = "Propagate"
    \/ group.props.pos = "Middle"
    \/ group.props.pos = "InGroup"
    \/ ~fits(width - column - 1, <<Triple(i, "Flat", group.doc)>>)

\* Mutant: the probe gets one column too many.
group_breaks_wide(i, group, column, width) ==
    \/ group.sb = "Yes"
    \/ group.sb = "Propagate"
    \/ group.props.pos = "Middle"
    \/ group.props.pos = "InGroup"
    \/ ~fits(width - column + 1, <<Triple(i, "Flat", group.doc)>>)

\* Mutant: the column is taken off the line length twice.
group_breaks_column_twice(i, group, column, width) ==
    \/ group.sb = "Yes"
    \/ group.sb = "Propagate"
    \/ group.props.pos = "Middle"
    \/ group.props.pos = "InGroup"
    \/ ~fits(width - column - column, <<Triple(i, "Flat", group.doc)>>)

\* Mutant: the position tested is that of the inner doc.
group_breaks_inner_position(i, group, column, width) ==
    \/ group.sb = "Yes"
    \/ group.sb = "Propagate"
    \/ query_inline_position(group.doc) = "Middle"
    \/ query_inline_position(group.doc) = "InGroup"
    \/ ~fits(width - column, <<Triple(i, "Flat", group.doc)>>)

\* The condition of the Group arm: the group is queued in Break mode.
group_breaks(i, group, column, width) ==
    \/ group.sb = "Yes"
    \/ group.sb = "Propagate"
    \/ group.props.pos = "Middle"
    \/ group.props.pos = "InGroup"
    \/ ~fits(width - column, <<Triple(i, "Flat", group.doc)>>)

\* Mutant: a group decided flat keeps the mode it was queued in.
PopGroupKeepsMode ==
    /\ Popped("Group")
    /\ LET i == Head(docs).indent
           doc == Head(docs).doc
       IN IF group_breaks(i, doc, consumed, line_length)
          THEN /\ docs' = push_front(Tail(docs), Triple(i, "Break", doc.doc))
               /\ broken_docs' = broken_docs \cup {doc.props.id}
          ELSE /\ docs' = push_front(Tail(docs), Triple(i, Head(docs).mode, doc.doc))
               /\ broken_docs' = broken_docs
    /\ decided' = decided \cup {[id |-> Head(docs).doc.props.id, mode |-> Head(docs').mode]}
    /\ hanging' = StillHanging
    /\ UNCHANGED construction_vars
    /\ UNCHANGED <<root, line_length, consumed, simple_docs, pc,
                   nest_if_break_log>>

\* Mutant: the id is recorded whatever the decision.
PopGroupRecordsAlways ==
    /\ Popped("Group")
    /\ LET i == Head(docs).indent
           doc == Head(docs).doc
       IN /\ IF group_breaks(i, doc, consumed, line_length)
             THEN docs' = push_front(Tail(docs), Triple(i, "Break", doc.doc))
             ELSE docs' = push_front(Tail(docs), Triple(i, "Flat", doc.doc))
          /\ broken_docs' = broken_docs \cup {doc.props.id}
    /\ decided' = decided \cup {[id |-> Head(docs).doc.props.id, mode |-> Head(docs').mode]}
    /\ hanging' = StillHanging
    /\ UNCHANGED construction_vars
    /\ UNCHANGED <<root, line_length, consumed, simple_docs, pc,
                   nest_if_break_log>>

PopGroup ==
    /\ Popped("Group")
    /\ LET i == Head(docs).indent
           doc == Head(docs).doc
       IN IF group_breaks(i, doc, consumed, line_length)
          THEN /\ docs' = push_front(Tail(docs), Triple(i, "Break", doc.doc))
               /\ broken_docs' = broken_docs \cup {doc.props.id}
          ELSE /\ docs' = push_front(Tail(docs), Triple(i, "Flat", doc.doc))
               /\ broken_docs' = broken_docs
    /\ decided' = decided \cup {[id |-> Head(docs).doc.props.id, mode |-> Head(docs').mode]}
    /\ hanging' = StillHanging
    /\ UNCHANGED construction_vars
    /\ UNCHANGED <<root, line_length, consumed, simple_docs, pc, nest_if_break_log>>

PopHardBreak ==
    /\ Popped("HardBreak")
    /\ docs' = Tail(docs)
    /\ hanging' = StillHanging
    /\ UNCHANGED construction_vars
    /\ UNCHANGED <<decided, root, line_length, consumed, broken_docs, simple_docs, pc,
                   nest_if_break_log>>

\* docs.pop_front() is None: the loop ends and simple_docs is returned.
Return ==
    /\ pc = "run"
    /\ docs = <<>>
    /\ pc' = "done"
    /\ hanging' = <<>>
    /\ UNCHANGED construction_vars
    /\ UNCHANGED <<decided, root, line_length, consumed, docs, broken_docs, simple_docs,
                   nest_if_break_log>>

Next ==
    \/ PopNil
    \/ PopCons
    \/ PopNest
    \/ PopNestIfBreak
    \/ PopNestHanging
    \/ PopText
    \/ PopBreakFlat
    \/ PopFitsUntilLBracket
    \/ PopBreakBreak
    \/ PopGroup
    \/ PopHardBreak
    \/ Return

Spec == Init /\ [][Next]_vars

(***************************************************************************)
(* Construction: a client builds documents bottom-up with DocAlgebra, one  *)
(* action per method, sharing one counter that starts at 0.  built holds   *)
(* the documents in hand; a method takes its operands from the end of      *)
(* built and leaves its result there.                                      *)
(***************************************************************************)
\* The leaves the client creates: a Text, a Text carrying an end-of-line
\* comment, a Break.
AlgebraLeaves == {Text(<<"a">>), CommentText(<<"#">>), Break(<<" ">>)}

RECURSIVE NodeCount(_)
NodeCount(doc) ==
    CASE doc.t = "Cons" -> 1 + NodeCount(doc.l) + NodeCount(doc.r)
      [] doc.t \in {"Nest", "NestIfBreak", "NestHanging", "FitsUntilLBracket", "Group"} ->
            1 + NodeCount(doc.doc)
      [] OTHER -> 1

RECURSIVE BuiltCount(_)
BuiltCount(seq) == IF seq = <<>> THEN 0 ELSE NodeCount(Head(seq)) + BuiltCount(Tail(seq))

AlgebraInit ==
    /\ built = <<>>
    /\ counter = 0
    /\ group_ids = <<>>
    /\ root = Triple(0, "Flat", Nil)
    /\ line_length = 0
    /\ consumed = 0
    /\ docs = <<>>
    /\ broken_docs = {}
    /\ simple_docs = <<>>
    /\ pc = "build"
    /\ nest_if_break_log = {}
    /\ hanging = <<>>
    /\ decided = {}

layout_vars == <<root, line_length, consumed, docs, broken_docs, simple_docs, pc,
                 nest_if_break_log, hanging, decided>>

\* One more node may be built, and built holds the operands of the call.
CanCall(operands) == BuiltCount(built) < MaxBuilt /\ Len(built) >= operands

Top == built[Len(built)]

Below(n) == SubSeq(built, 1, Len(built) - n)

\* The client creates a leaf.
MakeLeaf ==
    /\ CanCall(0)
    /\ \E leaf \in AlgebraLeaves : built' = Append(built, leaf)
    /\ UNCHANGED <<counter, group_ids, layout_vars>>

\* self.cons(other): the two documents built last, in either order.
CallCons ==
    /\ CanCall(2)
    /\ \E self \in {Top, built[Len(built) - 1]} :
           \E other \in {Top, built[Len(built) - 1]} \ {self} :
               built' = Append(Below(2), cons(self, other))
    /\ UNCHANGED <<counter, group_ids, layout_vars>>

\* self.to_group(should_break, &mut doc_ref)
CallToGroup ==
    /\ CanCall(1)
    /\ \E should_break \in ShouldBreak :
           LET group == to_group(Top, should_break, counter)
           IN /\ built' = Append(Below(1), group)
              /\ group_ids' = Append(group_ids, group.props.id)
    /\ counter' = counter + 1
    /\ UNCHANGED layout_vars

CallNest ==
    /\ CanCall(1)
    /\ built' = Append(Below(1), nest(Top, 2))
    /\ UNCHANGED <<counter, group_ids, layout_vars>>

CallNestIfBreak ==
    /\ CanCall(1)
    /\ built' = Append(Below(1), nest_if_break(Top, 2, 1))
    /\ UNCHANGED <<counter, group_ids, layout_vars>>

CallNestHanging ==
    /\ CanCall(1)
    /\ built' = Append(Below(1), nest_hanging(Top))
    /\ UNCHANGED <<counter, group_ids, layout_vars>>

CallFitsUntilLBracket ==
    /\ CanCall(1)
    /\ built' = Append(Below(1), to_fits_until_l_bracket(Top))
    /\ UNCHANGED <<counter, group_ids, layout_vars>>

AlgebraNext ==
    \/ MakeLeaf
    \/ CallCons
    \/ CallToGroup
    \/ CallNest
    \/ CallNestIfBreak
    \/ CallNestHanging
    \/ CallFitsUntilLBracket

AlgebraSpec == AlgebraInit /\ [][AlgebraNext]_vars

\* The loop of it_format_to_sdoc runs on its own thread of control until
\* pop_front gives None: an iteration that can be taken is taken.
FairSpec == Spec /\ WF_vars(Next)

\* The string the caller gets: it_simple_doc_to_string of the returned vector.
answer == it_simple_doc_to_string(simple_docs)

(***************************************************************************)
(* What the claims speak of, computed on the document tree itself (not on  *)
(* a queue): widths, flat text, lines.                                     *)
(***************************************************************************)
RECURSIVE FlatText(_)
FlatText(doc) ==
    CASE doc.t \in {"Text", "Break"} -> doc.s
      [] doc.t = "Cons" -> FlatText(doc.l) \o FlatText(doc.r)
      [] doc.t \in {"Nest", "NestIfBreak", "NestHanging", "FitsUntilLBracket", "Group"} ->
            FlatText(doc.doc)
      [] OTHER -> <<>>

FlatWidth(doc) == Len(FlatText(doc))

RECURSIVE Nodes(_)
Nodes(doc) ==
    {doc} \cup
    CASE doc.t = "Cons" -> Nodes(doc.l) \cup Nodes(doc.r)
      [] doc.t \in {"Nest", "NestIfBreak", "NestHanging", "FitsUntilLBracket", "Group"} ->
            Nodes(doc.doc)
      [] OTHER -> {}

Has(doc, kind) == \E n \in Nodes(doc) : n.t = kind

Groups(doc) == {n \in Nodes(doc) : n.t = "Group"}

\* Only Nil, Cons, Text, Nest, NestIfBreak, NestHanging, Break and groups that
\* nothing forces to break.
PlainDoc(doc) ==
    /\ ~Has(doc, "FitsUntilLBracket")
    /\ ~Has(doc, "HardBreak")
    /\ \A g \in Groups(doc) : g.sb = "No" /\ g.props.pos \notin {"Middle", "InGroup"}

RECURSIVE SplitLines(_)
SplitLines(sdocs) ==
    IF sdocs = <<>> THEN <<[indent |-> 0, texts |-> <<>>]>>
    ELSE LET d == sdocs[Len(sdocs)]
             before == SplitLines(SubSeq(sdocs, 1, Len(sdocs) - 1))
         IN IF d.t = "Line" THEN Append(before, [indent |-> d.indent, texts |-> <<>>])
            ELSE [before EXCEPT ![Len(before)].texts = Append(@, d.s)]

RECURSIVE TotalLen(_)
TotalLen(texts) == IF texts = <<>> THEN 0 ELSE Len(Head(texts)) + TotalLen(Tail(texts))

LineWidth(line) == line.indent + TotalLen(line.texts)

NoLine(sdocs) == \A k \in 1..Len(sdocs) : sdocs[k].t = "Text"

\* The step just taken popped a Group and queued its inner doc in this mode.
Decided(mode) ==
    /\ Popped("Group")
    /\ Head(docs').mode = mode
    /\ (Head(docs).doc.props.id \in broken_docs') = (mode = "Break")

(***************************************************************************)
(* C1  Width bound.                                                        *)
(***************************************************************************)
\* C1 as stated: when the run has returned, every output line (indent
\* included) has width <= line_length or consists of a single Text whose own
\* width exceeds line_length.
C1_WidthBound ==
    pc = "done" =>
        \A k \in 1..Len(SplitLines(simple_docs)) :
            LET line == SplitLines(simple_docs)[k]
            IN \/ LineWidth(line) <= line_length
               \/ Len(line.texts) = 1 /\ Len(line.texts[1]) > line_length

\* C1 amended: the bound holds for what a flat group prints.  Whenever a Group
\* without FitsUntilLBracket in its subtree is rendered flat, consumed plus the
\* widths of all its Text and Break alt-texts is <= line_length; and a document
\* that is one plain group rendered flat comes out as a single line of width
\* <= line_length.
C1_FlatGroupWithinWidth ==
    [][/\ (Decided("Flat") /\ ~Has(Head(docs).doc, "FitsUntilLBracket"))
            => consumed + FlatWidth(Head(docs).doc) <= line_length
       /\ (pc' = "done" /\ root.doc.t = "Group" /\ PlainDoc(root.doc)
              /\ root.doc.props.id \notin broken_docs')
            => /\ NoLine(simple_docs')
               /\ Len(it_simple_doc_to_string(simple_docs')) <= line_length]_vars

\* C1 witness: a plain group rendered flat that fills the line exactly.
C1_Witness ==
    /\ pc = "done"
    /\ root.doc.t = "Group" /\ PlainDoc(root.doc)
    /\ broken_docs = {}
    /\ line_length >= 2
    /\ Len(answer) = line_length

(***************************************************************************)
(* C2  Break propagation.                                                  *)
(***************************************************************************)
RECURSIVE HardBreakInGroup(_)
\* A HardBreak reachable in doc without crossing a Group.
HardBreakInGroup(doc) ==
    CASE doc.t = "HardBreak" -> TRUE
      [] doc.t = "Cons" -> HardBreakInGroup(doc.l) \/ HardBreakInGroup(doc.r)
      [] doc.t \in {"Nest", "NestIfBreak", "NestHanging", "FitsUntilLBracket"} ->
            HardBreakInGroup(doc.doc)
      [] OTHER -> FALSE

ForcingGroup(doc) ==
    doc.t = "Group" /\ (doc.sb = "Propagate" \/ HardBreakInGroup(doc.doc))

NoDoc == [t |-> "None"]

RECURSIVE Events(_, _)
\* What a flat measurement of doc meets, in traversal order; next is the doc
\* queued right behind doc (NoDoc when the queue ends there).  A Text or a
\* Break is a "text" event with its width; a "{" is paired when the item
\* queued right behind it is a Text "{".
Events(doc, next) ==
    CASE doc.t = "Text" ->
            <<[k |-> "text", w |-> doc.w, brace |-> is_l_bracket(doc),
               paired |-> is_l_bracket(next)]>>
      [] doc.t = "Break" ->
            <<[k |-> "text", w |-> Len(doc.s), brace |-> FALSE, paired |-> FALSE]>>
      [] doc.t = "HardBreak" -> <<[k |-> "hard"]>>
      [] doc.t = "Cons" -> Events(doc.l, doc.r) \o Events(doc.r, next)
      [] doc.t \in {"Nest", "NestIfBreak", "NestHanging"} -> Events(doc.doc, next)
      [] doc.t = "FitsUntilLBracket" -> <<[k |-> "bracket"]>> \o Events(doc.doc, next)
      [] doc.t = "Group" ->
            <<[k |-> "group", sb |-> doc.sb, pos |-> doc.props.pos]>> \o Events(doc.doc, next)
      [] OTHER -> <<>>

RECURSIVE StopAt(_, _, _)
\* The first event that ends a measurement whatever the width, and the width
\* of the text before it: "false" at a HardBreak, at a group with position
\* Middle and, before any FitsUntilLBracket, at a Propagate group; "brace" at an
\* unpaired "{" behind a FitsUntilLBracket; "end" when there is none.
StopAt(events, bracket_seen, width) ==
    IF events = <<>> THEN [stop |-> "end", width |-> width]
    ELSE LET e == Head(events)
         IN CASE e.k = "hard" -> [stop |-> "false", width |-> width]
              [] e.k = "group" ->
                    IF e.pos = "Middle" \/ (e.sb = "Propagate" /\ ~bracket_seen)
                    THEN [stop |-> "false", width |-> width]
                    ELSE StopAt(Tail(events), bracket_seen, width)
              [] e.k = "bracket" -> StopAt(Tail(events), TRUE, width)
              [] e.k = "text" ->
                    IF e.brace /\ bracket_seen /\ ~e.paired
                    THEN [stop |-> "brace", width |-> width]
                    ELSE StopAt(Tail(events), bracket_seen, width + e.w)

\* The stop of the measurement of a group's inner doc.
GroupStop(group) == StopAt(Events(group.doc, NoDoc), FALSE, 0)

C3_HardBreakNewline ==
    (pc = "done" /\ root.doc = HardBreakDoc) => answer = <<"a", "\n", "b">>

\* C3 amended: the group is decided broken at every line length, but
\* HardBreak emits nothing and the group has no Break, so the output is "ab".
C3_HardBreakEmitsNothing ==
    (pc = "done" /\ root.doc = HardBreakDoc) =>
        /\ answer = <<"a", "b">>
        /\ simple_docs = <<SimpleText(<<"a">>), SimpleText(<<"b">>)>>
        /\ broken_docs = {1}

\* C3 witness: the scenario run has returned with a line length that would
\* hold "ab" flat.
C3_Witness ==
    /\ pc = "done" /\ root.doc = HardBreakDoc
    /\ line_length = 80
    /\ answer = <<"a", "b">>

(***************************************************************************)
(* C4  Flat equivalence.                                                   *)
(***************************************************************************)
Positions(doc) == {query_inline_position(n) : n \in Nodes(doc)}

FlatEquivalenceInput ==
    /\ root.mode = "Flat" /\ root.indent = 0
    /\ ~Has(root.doc, "HardBreak")
    /\ \A g \in Groups(root.doc) : g.sb # "Propagate"
    /\ Positions(root.doc) \cap {"Middle", "InGroup"} = {}
    /\ line_length >= FlatWidth(root.doc)

\* C4 as stated: a document without HardBreak, Propagate group and position
\* Middle/InGroup, laid out in Flat mode with line_length at least its flat
\* width, emits no Line and is serialised as its flat text.
C4_FlatEquivalence ==
    (pc = "done" /\ FlatEquivalenceInput) =>
        NoLine(simple_docs) /\ answer = FlatText(root.doc)

\* C4 amended: the same, for documents that moreover have no group with
\* should-break = Yes.
C4_FlatEquivalenceNoYes ==
    (pc = "done" /\ FlatEquivalenceInput /\ \A g \in Groups(root.doc) : g.sb = "No") =>
        NoLine(simple_docs) /\ answer = FlatText(root.doc)

\* C4 witness: a run on such a document, with a group and a Break in it and
\* no column to spare, has returned its flat text.
C4_Witness ==
    /\ pc = "done" /\ FlatEquivalenceInput
    /\ Groups(root.doc) # {} /\ \A g \in Groups(root.doc) : g.sb = "No"
    /\ Has(root.doc, "Break")
    /\ line_length = FlatWidth(root.doc) /\ line_length >= 3
    /\ answer = FlatText(root.doc)

(***************************************************************************)
(* C5  NestIfBreak coherence.                                              *)
(***************************************************************************)
\* No NestIfBreak of the document observes a group of its own inner doc (the
\* data model leaves that case undefined).
ObserversOutside ==
    \A n \in Nodes(root.doc) :
        n.t = "NestIfBreak" => n.observed \notin {g.props.id : g \in Groups(n.doc)}

\* C5 as stated: when the run has returned, every popped NestIfBreak added
\* its step if and only if its observed id is in broken_docs.
C5_NestIfBreakCoherence ==
    (pc = "done" /\ ObserversOutside) =>
        \A e \in nest_if_break_log : e.applied <=> e.observed \in broken_docs

\* C5 amended: a popped NestIfBreak(step, d, G) queues d at indent + step if
\* and only if G is in broken_docs at the moment it is popped, otherwise at
\* the unchanged indent; a step once added, G stays in broken_docs; an id of no
\* group of the document never adds indent.
C5_NestIfBreakAtPop ==
    [][Popped("NestIfBreak") =>
          LET i == Head(docs).indent
              doc == Head(docs).doc
          IN /\ Head(docs').doc = doc.doc
             /\ Head(docs').mode = Head(docs).mode
             /\ Head(docs').indent = IF doc.observed \in broken_docs THEN i + doc.step ELSE i
             /\ doc.observed \notin {g.props.id : g \in Groups(root.doc)}
                    => Head(docs').indent = i
             /\ \A e \in nest_if_break_log' : e.applied => e.observed \in broken_docs']_vars

\* C5 witness: a NestIfBreak has added its step after its group broke.
C5_Witness ==
    /\ pc = "done"
    /\ \E e \in nest_if_break_log : e.applied /\ e.observed \in broken_docs
    /\ \E k \in 1..Len(simple_docs) : simple_docs[k].t = "Line" /\ simple_docs[k].indent = 2

(***************************************************************************)
(* C6  NestIfBreak scenario.                                               *)
(***************************************************************************)
\* C6 as stated: the scenario document gives "f(", newline, two spaces, "x",
\* newline, ")" at line length 3 and "f(x)" at line length 80.
C6_NestIfBreakScenario ==
    (pc = "done" /\ root.doc = NestIfBreakDoc) =>
        /\ line_length = 3 => answer = <<"f", "(", "\n", " ", " ", "x", "\n", ")">>
        /\ line_length = 80 => answer = <<"f", "(", "x", ")">>

\* C6 amended: at line length 3 the output is "f(", newline, two spaces,
\* "x)": the document has no Break before ")"; at line length 80 it is "f(x)".
C6_NestIfBreakScenarioOneLine ==
    (pc = "done" /\ root.doc = NestIfBreakDoc) =>
        /\ line_length = 3 =>
              /\ answer = <<"f", "(", "\n", " ", " ", "x", ")">>
              /\ broken_docs = {1}
        /\ line_length = 80 =>
              /\ answer = <<"f", "(", "x", ")">>
              /\ broken_docs = {}

\* C6 witness: the scenario run at line length 3 has returned with its group
\* broken.
C6_Witness ==
    /\ pc = "done" /\ root.doc = NestIfBreakDoc
    /\ line_length = 3
    /\ 1 \in broken_docs

(***************************************************************************)
(* C7  Hanging alignment.                                                  *)
(***************************************************************************)
\* The step just taken emitted a Line while inside the NestHanging of entry e.
LineInside(e) ==
    /\ Popped("Break") /\ Head(docs).mode = "Break"
    /\ \E k \in 1..Len(StillHanging) : StillHanging[k] = e

EmittedLine == simple_docs'[Len(simple_docs')]

\* C7 as stated: every Line emitted while nodes of a NestHanging(d) popped at
\* column c are being processed carries indent exactly c, for every d.
C7_HangingAlignment ==
    [][\A k \in 1..Len(hanging) :
          LineInside(hanging[k]) => EmittedLine = SimpleLine(hanging[k].col)]_vars

\* C7 amended: such a Line carries indent exactly c when d contains no Nest,
\* NestIfBreak or NestHanging node, and indent at least c otherwise.
C7_HangingAlignmentPlain ==
    [][\A k \in 1..Len(hanging) :
          LineInside(hanging[k]) =>
              /\ EmittedLine.t = "Line"
              /\ EmittedLine.indent >= hanging[k].col
              /\ hanging[k].plain => EmittedLine.indent = hanging[k].col]_vars

\* C7 witness: a Line was emitted inside a NestHanging popped at a column
\* greater than its queue indent, and carries that column.
C7_Witness ==
    \E k \in 1..Len(hanging) :
        /\ hanging[k].plain /\ hanging[k].col >= 2
        /\ Len(simple_docs) > hanging[k].emitted
        /\ simple_docs[Len(simple_docs)] = SimpleLine(hanging[k].col)

(***************************************************************************)
(* C8  Plain group decision.                                               *)
(***************************************************************************)
PlainGroup(doc) ==
    /\ doc.t = "Group" /\ doc.sb = "No" /\ doc.props.pos = "No"
    /\ \A n \in Nodes(doc.doc) : n.t \in {"Nil", "Cons", "Text", "Nest", "Break"}

RECURSIVE Rendered(_, _, _)
\* What a doc of Nil, Cons, Text, Nest and Break is to emit at an indent, in
\* a mode: each Text itself, each Break its alt-text (Flat) or Line(indent).
Rendered(doc, indent, mode) ==
    CASE doc.t = "Text" -> <<SimpleText(doc.s)>>
      [] doc.t = "Break" ->
            IF mode = "Flat" THEN <<SimpleText(doc.s)>> ELSE <<SimpleLine(indent)>>
      [] doc.t = "Cons" -> Rendered(doc.l, indent, mode) \o Rendered(doc.r, indent, mode)
      [] doc.t = "Nest" -> Rendered(doc.doc, indent + doc.step, mode)
      [] OTHER -> <<>>

\* C8: a popped plain group (should-break No, position No, inner doc of Nil,
\* Cons, Text, Nest, Break only) is rendered flat if and only if the widths of
\* its Texts and Break alt-texts sum to at most line_length - consumed; flat,
\* every Break emits its alt-text and no Line, broken, every Break emits the
\* Line of its indent.  Group("foo" Break(" ") "bar") gives "foo bar" at line
\* length 10 and "foo", newline, "bar" at line length 5.
C8_PlainGroupDecision ==
    [][/\ (Popped("Group") /\ PlainGroup(Head(docs).doc)) =>
             IF FlatWidth(Head(docs).doc) <= line_length - consumed
             THEN Decided("Flat") ELSE Decided("Break")
       /\ (pc' = "done" /\ PlainGroup(root.doc)) =>
             simple_docs' = Rendered(root.doc.doc, 0,
                                     IF FlatWidth(root.doc) <= line_length
                                     THEN "Flat" ELSE "Break")
       /\ (pc' = "done" /\ root.doc = FooBarDoc) =>
             /\ line_length = 10 =>
                   it_simple_doc_to_string(simple_docs')
                       = <<"f", "o", "o", " ", "b", "a", "r">>
             /\ line_length = 5 =>
                   it_simple_doc_to_string(simple_docs')
                       = <<"f", "o", "o", "\n", "b", "a", "r">>]_vars

\* C8 witness: the scenario group has been rendered broken at line length 5.
C8_Witness ==
    /\ pc = "done" /\ root.doc = FooBarDoc
    /\ line_length = 5
    /\ answer = <<"f", "o", "o", "\n", "b", "a", "r">>

(***************************************************************************)
(* C9  Bracket truncation.                                                 *)
(***************************************************************************)
\* A group that nothing but its measurement can break.
Measured(doc) ==
    doc.t = "Group" /\ doc.sb = "No" /\ doc.props.pos \notin {"Middle", "InGroup"}

\* C9: when the measurement of a popped group has passed a FitsUntilLBracket
\* and then meets an unpaired Text "{", the group is rendered flat if and only
\* if at least one column remains before the brace, whatever follows the
\* brace; a group behind the brace whose own measurement meets a HardBreak is
\* still decided broken when it is popped.  The test_that scenario stays on
\* one line up to its brace at line length 8 although its flat width is 10.
C9_BracketTruncation ==
    [][/\ (Popped("Group") /\ Measured(Head(docs).doc)
             /\ GroupStop(Head(docs).doc).stop = "brace") =>
             IF line_length - consumed - GroupStop(Head(docs).doc).width > 0
             THEN Decided("Flat") ELSE Decided("Break")
       /\ (pc' = "done" /\ Measured(root.doc) /\ GroupStop(root.doc).stop = "brace") =>
             \A c \in Groups(root.doc) :
                 (HardBreakInGroup(c.doc) /\ GroupStop(c).stop = "false")
                     => c.props.id \in broken_docs'
       /\ (pc' = "done" /\ root.doc = TestThatDoc /\ line_length = 8) =>
             /\ broken_docs' = {1}
             /\ it_simple_doc_to_string(simple_docs')
                    = <<"t", "(", "l", "o", "n", "g", " ", "{", "\n", " ", " ", "x", "\n", "}">>]_vars

\* C9 witness: the scenario's outer group stayed flat, wider than the line,
\* and the block body group behind the brace broke.
C9_Witness ==
    /\ pc = "done" /\ root.doc = TestThatDoc
    /\ line_length = 8 /\ FlatWidth(root.doc) > line_length
    /\ broken_docs = {1}

(***************************************************************************)
(* C10  Embracing-brace exception.                                         *)
(***************************************************************************)
RECURSIVE Embraced(_, _)
\* The events with the second brace of each "{" "{" pair made part of the
\* pair: it is no unpaired brace.
Embraced(events, after_paired) ==
    IF events = <<>> THEN <<>>
    ELSE LET e == Head(events)
         IN IF e.k = "text" /\ e.brace
            THEN IF after_paired
                 THEN <<[e EXCEPT !.paired = TRUE]>> \o Embraced(Tail(events), FALSE)
                 ELSE <<e>> \o Embraced(Tail(events), e.paired)
            ELSE <<e>> \o Embraced(Tail(events), FALSE)

HasEmbracing(group) ==
    LET events == Events(group.doc, NoDoc)
    IN \E j, k \in 1..Len(events) :
           /\ j < k /\ events[j].k = "bracket"
           /\ events[k].k = "text" /\ events[k].brace /\ events[k].paired

\* C10 as stated: a popped group whose bracket-truncated measurement meets a
\* Text "{" directly followed by a queued Text "{" is measured through both
\* braces: their widths are subtracted and what is queued behind the second
\* brace still counts against the width.
C10_EmbracingContinues ==
    [][(Popped("Group") /\ Measured(Head(docs).doc) /\ HasEmbracing(Head(docs).doc)) =>
          LET claimed == StopAt(Embraced(Events(Head(docs).doc.doc, NoDoc), FALSE), FALSE, 0)
              remaining_width == line_length - consumed
          IN IF \/ claimed.stop = "end" /\ claimed.width <= remaining_width
                \/ claimed.stop = "brace" /\ remaining_width - claimed.width > 0
             THEN Decided("Flat") ELSE Decided("Break")]_vars

(***************************************************************************)
(* C11  should-break = Yes does not propagate.                             *)
(***************************************************************************)
\* A group that the presence of a should-break Yes group could only break by
\* propagation: should-break No, position No, a Yes group in its subtree, and
\* no HardBreak, Propagate group or Middle group anywhere in it.
EnclosesYesOnly(doc) ==
    /\ doc.t = "Group" /\ doc.sb = "No" /\ doc.props.pos = "No"
    /\ \E g \in Groups(doc.doc) : g.sb = "Yes"
    /\ ~Has(doc, "HardBreak")
    /\ \A g \in Groups(doc) : g.sb # "Propagate" /\ g.props.pos # "Middle"

\* C11: every popped Group with should-break = Yes is decided broken; and a
\* popped Group with should-break No and position No that holds a Yes group
\* but no HardBreak, Propagate group or Middle group, and whose whole flat
\* width (the Yes group's content included) is <= line_length - consumed, is
\* decided flat.
C11_YesDoesNotPropagate ==
    [][/\ (Popped("Group") /\ Head(docs).doc.sb = "Yes") => Decided("Break")
       /\ (Popped("Group") /\ EnclosesYesOnly(Head(docs).doc)
             /\ FlatWidth(Head(docs).doc) <= line_length - consumed)
             => Decided("Flat")]_vars

\* C11 witness: the run has returned with the enclosing group flat, the Yes
\* group inside it broken and the Line of the Yes group's Break emitted.
C11_Witness ==
    /\ pc = "done" /\ EnclosesYesOnly(root.doc)
    /\ FlatWidth(root.doc) >= 2 /\ FlatWidth(root.doc) <= line_length
    /\ root.doc.props.id \notin broken_docs
    /\ \E g \in Groups(root.doc.doc) : g.sb = "Yes" /\ g.props.id \in broken_docs
    /\ ~NoLine(simple_docs)

(***************************************************************************)
(* C12  Group-id assignment.                                               *)
(***************************************************************************)
\* Every node of the documents in hand.
BuiltNodes(seq) == UNION {Nodes(seq[k]) : k \in 1..Len(seq)}

\* C12: along every sequence of DocAlgebra calls on one counter that starts
\* at 0, the k-th call of to_group returns a Group with id k (so the ids of
\* the groups in hand are >= 1 and pairwise distinct, and the counter is the
\* number of to_group calls so far); a step changes the counter only if it
\* is a to_group call, which adds exactly 1; and every Cons, Nest,
\* NestIfBreak, NestHanging and FitsUntilLBracket node carries id 0.
C12_GroupIdAssignment ==
    [][/\ \A k \in 1..Len(group_ids') : group_ids'[k] = k
       /\ counter' = Len(group_ids')
       /\ counter' # counter => CallToGroup
       /\ counter' # counter =>
              /\ counter' = counter + 1
              /\ built'[Len(built')].t = "Group"
              /\ built'[Len(built')].doc = Top
              /\ built'[Len(built')].props.id = counter'
       /\ LET nodes == BuiltNodes(built')
              groups == {n \in nodes : n.t = "Group"}
          IN /\ \A n \in nodes \ groups :
                    n.t \in {"Cons", "Nest", "NestIfBreak", "NestHanging", "FitsUntilLBracket"}
                        => n.props.id = 0
             /\ \A g \in groups : g.props.id \in 1..counter'
             /\ \A g, h \in groups : g.props.id = h.props.id => g = h]_vars

\* C12 witness: two to_group calls have been made, with a cons between
\* them; the group built last has id 2 and a group with id 1 inside.
C12_Witness ==
    /\ pc = "build" /\ built # <<>>
    /\ group_ids = <<1, 2>> /\ counter = 2
    /\ Top.t = "Group" /\ Top.props.id = 2 /\ Top.doc.t = "Cons"
    /\ \E n \in Nodes(Top) : n.t = "Cons" /\ n.props.id = 0
    /\ \E n \in Nodes(Top) : n.t = "Group" /\ n.props.id = 1

(***************************************************************************)
(* C13  Left-to-right emission.                                            *)
(***************************************************************************)
RECURSIVE TextAndBreakLeaves(_)
\* The Text and Break leaves of a document, left to right.
TextAndBreakLeaves(doc) ==
    CASE doc.t \in {"Text", "Break"} -> <<doc>>
      [] doc.t = "Cons" -> TextAndBreakLeaves(doc.l) \o TextAndBreakLeaves(doc.r)
      [] doc.t \in {"Nest", "NestIfBreak", "NestHanging", "FitsUntilLBracket", "Group"} ->
            TextAndBreakLeaves(doc.doc)
      [] OTHER -> <<>>

\* The element a leaf may yield: a Text its string, a Break its alt-text or a
\* Line.
YieldedBy(sdoc, leaf) ==
    IF leaf.t = "Text" THEN sdoc = SimpleText(leaf.s)
    ELSE sdoc = SimpleText(leaf.s) \/ sdoc.t = "Line"

\* C13: at every step the elements emitted so far correspond, one to one and
\* in order, to the first Text and Break leaves of the document read left to
\* right (a Text gives Text(s), a Break gives Text(alt-text) or a Line), and
\* when the pass has returned every such leaf has its element: nothing is
\* dropped, duplicated or reordered, and Nil and HardBreak give nothing.
C13_LeftToRightEmission ==
    LET leaves == TextAndBreakLeaves(root.doc)
    IN /\ Len(simple_docs) <= Len(leaves)
       /\ \A k \in 1..Len(simple_docs) : YieldedBy(simple_docs[k], leaves[k])
       /\ pc = "done" => Len(simple_docs) = Len(leaves)

\* C13 witness: a returned run on a document with a HardBreak, whose output
\* has a Text, then a Line, then a Text again.
C13_Witness ==
    /\ pc = "done" /\ Has(root.doc, "HardBreak")
    /\ Len(simple_docs) >= 3
    /\ \E k \in 2..(Len(simple_docs) - 1) :
          /\ simple_docs[k].t = "Line"
          /\ simple_docs[k - 1].t = "Text" /\ simple_docs[k + 1].t = "Text"

(***************************************************************************)
(* C14  Group decision rule.                                               *)
(***************************************************************************)
\* The probe of the Group arm: fits(line_length - consumed, [(i, Flat, inner)]).
Probe(group) ==
    fits(line_length - consumed, <<Triple(Head(docs).indent, "Flat", group.doc)>>)

\* C14 as stated: a popped Group is decided broken if and only if its
\* should-break is Yes or Propagate, or the position of its inner doc is
\* Middle or InGroup, or the probe fails; otherwise it is decided flat.
C14_GroupDecisionRule ==
    [][Popped("Group") =>
          LET group == Head(docs).doc
          IN IF \/ group.sb \in {"Yes", "Propagate"}
                \/ query_inline_position(group.doc) \in {"Middle", "InGroup"}
                \/ ~Probe(group)
             THEN Decided("Break") ELSE Decided("Flat")]_vars

\* C14 amended: the position tested is the one stored on the Group itself.
\* A popped Group is decided broken if and only if its should-break is Yes
\* or Propagate, or its own position is Middle or InGroup, or the probe
\* fails; otherwise flat.  For a group built by to_group the own position is
\* never Middle and is InGroup exactly when the inner doc's position is
\* Middle, so an inner doc of position InGroup does not by itself break.
C14_GroupDecisionOwnPosition ==
    [][Popped("Group") =>
          LET group == Head(docs).doc
          IN /\ IF \/ group.sb \in {"Yes", "Propagate"}
                   \/ group.props.pos \in {"Middle", "InGroup"}
                   \/ ~Probe(group)
                THEN Decided("Break") ELSE Decided("Flat")
             /\ group.props.pos # "Middle"
             /\ group.props.pos = "InGroup" <=> query_inline_position(group.doc) = "Middle"]_vars

\* C14 witness: a group whose inner doc is a group of position InGroup stayed
\* flat, and the inner group broke.
C14_Witness ==
    /\ pc = "done" /\ root.doc = CommentGroupDoc
    /\ query_inline_position(root.doc.doc) = "InGroup"
    /\ broken_docs = {1}

(***************************************************************************)
(* C15  The bracket-truncated measurement against fits.                    *)
(***************************************************************************)
NoLBracket(doc) == \A n \in Nodes(doc) : ~is_l_bracket(n)

\* C15 as stated: on the probe queue of every popped Group whose subtree has
\* no Text "{", and for every remaining width, fits_until_l_bracket returns
\* what fits returns, also when the queue holds a HardBreak, a Propagate
\* group or a group of position Middle.
C15_MeasurementsAgree ==
    [][(Popped("Group") /\ NoLBracket(Head(docs).doc)) =>
          LET queue == <<Triple(Head(docs).indent, "Flat", Head(docs).doc.doc)>>
          IN \A remaining_width \in Widths :
                 fits_until_l_bracket(remaining_width, queue) = fits(remaining_width, queue)]_vars

(***************************************************************************)
(* C16  A group rendered flat is entirely flat.                            *)
(***************************************************************************)
RECURSIVE LeafOwners(_, _)
\* For each Text and Break leaf, left to right, the id of the nearest Group
\* around it (owner is the id in force above doc; 0 is no group).
LeafOwners(doc, owner) ==
    CASE doc.t \in {"Text", "Break"} -> <<owner>>
      [] doc.t = "Cons" -> LeafOwners(doc.l, owner) \o LeafOwners(doc.r, owner)
      [] doc.t \in {"Nest", "NestIfBreak", "NestHanging", "FitsUntilLBracket"} ->
            LeafOwners(doc.doc, owner)
      [] doc.t = "Group" -> LeafOwners(doc.doc, doc.props.id)
      [] OTHER -> <<>>

RECURSIVE GroupSpans(_, _)
\* Each Group of doc with the leaves of its subtree: they are the leaves
\* number from + 1 to to, counting the leaves of the whole document from
\* offset.
GroupSpans(doc, offset) ==
    CASE doc.t = "Cons" ->
            GroupSpans(doc.l, offset)
            \cup GroupSpans(doc.r, offset + Len(TextAndBreakLeaves(doc.l)))
      [] doc.t \in {"Nest", "NestIfBreak", "NestHanging", "FitsUntilLBracket"} ->
            GroupSpans(doc.doc, offset)
      [] doc.t = "Group" ->
            {[group |-> doc, from |-> offset, to |-> offset + Len(TextAndBreakLeaves(doc))]}
            \cup GroupSpans(doc.doc, offset)
      [] OTHER -> {}

\* The groups of the document that were decided flat, once the pass returned.
FlatSpans == {sp \in GroupSpans(root.doc, 0) : sp.group.props.id \notin broken_docs}

\* C16 as stated: when the pass has returned, every group that was decided
\* flat has emitted no Line for any leaf of its subtree and none of its
\* descendant groups is in broken_docs, whatever the document.
C16_FlatGroupEntirelyFlat ==
    pc = "done" =>
        \A sp \in FlatSpans :
            /\ \A k \in (sp.from + 1)..sp.to : simple_docs[k].t = "Text"
            /\ \A d \in Groups(sp.group) : d.props.id \notin broken_docs

\* Nothing in the subtree of a group can break on its own account: no
\* FitsUntilLBracket, and no descendant group with should-break Yes or with
\* position Middle or InGroup.
NothingBreaksAlone(group) ==
    /\ ~Has(group, "FitsUntilLBracket")
    /\ \A d \in Groups(group.doc) :
           d.sb # "Yes" /\ d.props.pos \notin {"Middle", "InGroup"}

\* C16 amended: the mode is chosen per group, not per subtree.  When the pass
\* has returned, every Break has emitted a Line exactly when the nearest
\* Group around it was decided broken (outside every group: when the document
\* was queued in Break mode), so the Breaks a flat group holds directly all
\* emitted their alt-text; and a group decided flat whose subtree has no
\* FitsUntilLBracket and no descendant group with should-break Yes or
\* position Middle or InGroup emitted no Line at all and has no descendant
\* in broken_docs.
C16_FlatGroupOwnBreaks ==
    pc = "done" =>
        LET leaves == TextAndBreakLeaves(root.doc)
            owners == LeafOwners(root.doc, 0)
        IN /\ \A k \in 1..Len(leaves) :
                  leaves[k].t = "Break" =>
                      (simple_docs[k].t = "Line"
                          <=> IF owners[k] = 0 THEN root.mode = "Break"
                              ELSE owners[k] \in broken_docs)
           /\ \A sp \in FlatSpans :
                  NothingBreaksAlone(sp.group) =>
                      /\ \A k \in (sp.from + 1)..sp.to : simple_docs[k].t = "Text"
                      /\ \A d \in Groups(sp.group) : d.props.id \notin broken_docs

\* C16 witness: the outer group of the scenario stayed flat and its own Break
\* gave its alt-text, while the should-break Yes group inside it broke and
\* gave a Line.
C16_Witness ==
    /\ pc = "done" /\ root.doc = FlatAroundYesDoc
    /\ broken_docs = {1}
    /\ simple_docs = <<SimpleText(<<"a">>), SimpleText(<<" ">>), SimpleLine(0),
                       SimpleText(<<"b">>)>>

(***************************************************************************)
(* C17  Flat decisions are inherited in plain documents.                   *)
(***************************************************************************)
\* Every group has should-break No and position No, and the document has no
\* FitsUntilLBracket and no HardBreak.
PlainGroupsDoc(doc) ==
    /\ ~Has(doc, "FitsUntilLBracket")
    /\ ~Has(doc, "HardBreak")
    /\ \A g \in Groups(doc) : g.sb = "No" /\ g.props.pos = "No"

\* The popped group lies inside a group that was decided flat: it has a group
\* around it and was queued in Flat mode (a group queues its inner doc in
\* the mode it decided, and only a group changes the mode).
InsideFlatGroup ==
    /\ Popped("Group") /\ Head(docs).mode = "Flat"
    /\ \E g \in Groups(root.doc) : Head(docs).doc \in Groups(g.doc)

\* C17: in a document whose groups all have should-break No and position No
\* and that has no FitsUntilLBracket and no HardBreak, a Group popped inside
\* a group that was decided flat finds a remaining width of at least its own
\* flat width and is decided flat; so, when the pass returns, no leaf of a
\* group that was decided flat has given a Line and none of its descendant
\* groups is in broken_docs.
C17_FlatInherited ==
    [][PlainGroupsDoc(root.doc) =>
          /\ InsideFlatGroup =>
                /\ FlatWidth(Head(docs).doc) <= line_length - consumed
                /\ Decided("Flat")
          /\ (docs = <<>> /\ pc' = "done") =>
                \A sp \in FlatSpans :
                    /\ \A k \in (sp.from + 1)..sp.to : simple_docs[k].t = "Text"
                    /\ \A d \in Groups(sp.group) : d.props.id \notin broken_docs]_vars

\* C17 witness: both groups of the nested scenario were decided flat with no
\* column to spare, the inner one at column 2.
C17_Witness ==
    /\ pc = "done" /\ root.doc = NestedGroupsDoc /\ PlainGroupsDoc(root.doc)
    /\ line_length = 4
    /\ broken_docs = {}
    /\ answer = <<"a", "b", " ", "c">>

(***************************************************************************)
(* C18  broken_docs invariant.                                             *)
(***************************************************************************)
\* C18: broken_docs starts empty and after every step it is exactly the set
\* of ids of the Groups popped so far whose inner doc was queued in Break
\* mode; the step of a Group decided flat and every step of another arm
\* leave broken_docs as it was, and the step of a Group decided broken adds
\* its id and nothing else.
C18_BrokenDocs ==
    [][/\ broken_docs' = {e.id : e \in {d \in decided' : d.mode = "Break"}}
       /\ ~Popped("Group") => broken_docs' = broken_docs
       /\ Decided("Flat") => broken_docs' = broken_docs
       /\ Decided("Break") => broken_docs' = broken_docs \cup {Head(docs).doc.props.id}]_vars

\* C18 witness: the pass has returned after deciding one group flat and one
\* broken, and broken_docs holds the id of the broken one only.
C18_Witness ==
    /\ pc = "done"
    /\ \E f, b \in decided :
          /\ f.mode = "Flat" /\ b.mode = "Break"
          /\ broken_docs = {b.id} /\ f.id # b.id

(***************************************************************************)
(* C19  Inline-comment-position of constructed nodes.                      *)
(***************************************************************************)
\* The position the claim gives a constructed node, from its children.
ClaimedPosition(n) ==
    CASE n.t = "Cons" ->
            AddPosition(query_inline_position(n.l), query_inline_position(n.r))
      [] n.t \in {"Nest", "NestIfBreak", "NestHanging", "FitsUntilLBracket"} ->
            query_inline_position(n.doc)
      [] n.t = "Group" ->
            LET inner == query_inline_position(n.doc)
            IN IF inner = "Middle" THEN "InGroup"
               ELSE IF inner = "InGroup" THEN "No" ELSE inner

\* C19: in every document built through DocAlgebra from leaves, a Cons
\* carries position(left) + position(right), a Nest, NestIfBreak, NestHanging
\* or FitsUntilLBracket the position of its inner doc, and a Group the
\* position of its inner doc with Middle mapped to InGroup and InGroup to No;
\* so no Group carries position Middle.
C19_ConstructedPositions ==
    \A n \in BuiltNodes(built) :
        /\ n.t \notin {"Nil", "Text", "Break", "HardBreak"} =>
               query_inline_position(n) = ClaimedPosition(n)
        /\ n.t = "Group" => query_inline_position(n) # "Middle"

\* C19 witness: a Group of position InGroup around a Cons of position Middle
\* has been built and wrapped in a second Group, whose position is No.
C19_Witness ==
    /\ pc = "build" /\ built # <<>>
    /\ Top.t = "Group" /\ Top.props.pos = "No"
    /\ Top.doc.t = "Group" /\ Top.doc.props.pos = "InGroup"
    /\ Top.doc.doc.t = "Cons" /\ Top.doc.doc.props.pos = "Middle"

(***************************************************************************)
(* C20  The position combination is associative.                           *)
(***************************************************************************)
\* The laws of the Add table on all positions.
AddLaws ==
    /\ \A a, b, c \in InlineCommentPosition :
           AddPosition(AddPosition(a, b), c) = AddPosition(a, AddPosition(b, c))
    /\ \E a, b \in InlineCommentPosition : AddPosition(a, b) # AddPosition(b, a)
    /\ \A a \in InlineCommentPosition : AddPosition("InGroup", a) = a
    /\ \E a \in InlineCommentPosition : AddPosition(a, "InGroup") # a

\* C20: (a + b) + c = a + (b + c) for all positions a, b, c, so a cons call
\* (the one step that takes two documents and leaves one) whose left operand
\* is itself a Cons gets the position the other parenthesising would get; the combination is not commutative, and InGroup is a left
\* identity but not a right identity.
C20_AddAssociative ==
    [][/\ AddLaws
       /\ (Len(built') = Len(built) - 1 /\ built'[Len(built')].l.t = "Cons") =>
              LET chain == built'[Len(built')]
              IN /\ chain = cons(chain.l, chain.r)
                 /\ query_inline_position(chain)
                        = query_inline_position(cons(chain.l.l, cons(chain.l.r, chain.r)))]_vars

\* C20 witness: a chain cons(cons(a, b), c) has been built with positions
\* No, End and No, where the order of the additions could matter: No + End
\* is End, and End + No is Middle.
C20_Witness ==
    /\ pc = "build" /\ built # <<>>
    /\ Top.t = "Cons" /\ Top.l.t = "Cons"
    /\ query_inline_position(Top.l.l) = "No"
    /\ query_inline_position(Top.l.r) = "End"
    /\ query_inline_position(Top.r) = "No"
    /\ query_inline_position(Top.l) = "End"
    /\ query_inline_position(Top) = "Middle"

(***************************************************************************)
(* C21  Column tracking.                                                   *)
(***************************************************************************)
RECURSIVE LastLineWidth(_)
\* The number of characters behind the last newline of a string.
LastLineWidth(string) ==
    IF string = <<>> THEN 0
    ELSE IF string[Len(string)] = "\n" THEN 0
    ELSE 1 + LastLineWidth(SubSeq(string, 1, Len(string) - 1))

\* Nest and NestIfBreak steps are >= 0, Text widths are the lengths of their
\* strings, and no Text string or Break alt-text holds a newline.
ColumnTrackingInput(doc) ==
    \A n \in Nodes(doc) :
        /\ n.t \in {"Nest", "NestIfBreak"} => n.step >= 0
        /\ n.t = "Text" => n.w = Len(n.s)
        /\ n.t \in {"Text", "Break"} => \A k \in 1..Len(n.s) : n.s[k] # "\n"

\* C21: in a run started with consumed = 0 on such a document, after every
\* loop iteration consumed is the width of the last line of the output
\* serialised so far, and every queued indent and every emitted Line indent
\* is >= 0.
C21_ColumnTracking ==
    ColumnTrackingInput(root.doc) =>
        /\ consumed = LastLineWidth(answer)
        /\ \A k \in 1..Len(docs) : docs[k].indent >= 0
        /\ \A k \in 1..Len(simple_docs) :
               simple_docs[k].t = "Line" => simple_docs[k].indent >= 0

\* C21 witness: a Line of indent 2 was emitted and text followed it on the
\* same line, so the column is past the indent; the pass has returned.
C21_Witness ==
    /\ pc = "done" /\ ColumnTrackingInput(root.doc)
    /\ \E k \in 1..(Len(simple_docs) - 1) :
          /\ simple_docs[k] = SimpleLine(2)
          /\ \A j \in (k + 1)..Len(simple_docs) : simple_docs[j].t = "Text"
          /\ consumed > 2
          /\ consumed = 2 + TotalLen([j \in 1..(Len(simple_docs) - k) |-> simple_docs[k + j].s])

(***************************************************************************)
(* C22  Termination.                                                       *)
(***************************************************************************)
\* The number of direct children of a node.
DirectChildren(doc) ==
    CASE doc.t = "Cons" -> 2
      [] doc.t \in {"Nest", "NestIfBreak", "NestHanging", "FitsUntilLBracket", "Group"} -> 1
      [] OTHER -> 0

RECURSIVE Work(_)
\* The layout iterations a queued document still needs: one per node, and a
\* second one for a NestHanging, which is first replaced by a Nest.
Work(doc) ==
    CASE doc.t = "Cons" -> 1 + Work(doc.l) + Work(doc.r)
      [] doc.t = "NestHanging" -> 2 + Work(doc.doc)
      [] doc.t \in {"Nest", "NestIfBreak", "FitsUntilLBracket", "Group"} -> 1 + Work(doc.doc)
      [] OTHER -> 1

RECURSIVE QueueWork(_)
QueueWork(queue) ==
    IF queue = <<>> THEN 0 ELSE Work(Head(queue).doc) + QueueWork(Tail(queue))

\* C22: every run reaches an empty work queue and returns; the probe of every
\* popped Group, which goes through fits_until_l_bracket behind a
\* FitsUntilLBracket, returns a boolean; each iteration pops one node and
\* pushes at most as many items as the node has direct children (two for a
\* Cons, one for another inner node, none for a leaf) in front of the
\* untouched rest of the queue; and each iteration takes exactly one off the
\* work that is left, which starts at no more than twice the node count of
\* the document: the number of iterations is linear in the node count.
C22_Termination ==
    /\ <>(pc = "done")
    /\ [][/\ Popped("Group") => Probe(Head(docs).doc) \in BOOLEAN
          /\ (pc = "run" /\ docs # <<>>) =>
                LET pushed == Len(docs') - Len(Tail(docs))
                IN /\ pushed >= 0 /\ pushed <= DirectChildren(Head(docs).doc)
                   /\ SubSeq(docs', pushed + 1, Len(docs')) = Tail(docs)
                   /\ QueueWork(SubSeq(docs', 1, pushed)) = Work(Head(docs).doc) - 1
          /\ docs = <<root>> =>
                /\ QueueWork(docs) = Work(root.doc)
                /\ Work(root.doc) <= 2 * NodeCount(root.doc)]_vars

\* C22 witness: a run on a document with a NestHanging around a group, which
\* takes one iteration more than the document has nodes, has returned with
\* its queue empty after emitting a Line.
C22_Witness ==
    /\ pc = "done" /\ docs = <<>>
    /\ \E n \in Nodes(root.doc) : n.t = "NestHanging" /\ Groups(n) # {}
    /\ Work(root.doc) = NodeCount(root.doc) + 1
    /\ Len(simple_docs) >= 3 /\ ~NoLine(simple_docs)

====
